---- MODULE Spec2Model ----
(***************************************************************************)
(* Call-session turn-taking engine of the medical clinic phone agent:      *)
(* the voice activity detector (backend/app/audio/vad.py), the session     *)
(* registry and the REST call-management endpoints, and the websocket      *)
(* conversation loop (backend/app/main.py).                                *)
(*                                                                         *)
(* The server runs on one asyncio event loop: the code between two awaits  *)
(* of a handler runs without interleaving, so every action below is one    *)
(* such segment.  stt.transcribe and tts.synthesize are plain synchronous  *)
(* calls and belong to the segment that calls them.                        *)
(*                                                                         *)
(* Durations are kept in milliseconds (1.5 s = 1500) so that               *)
(* get_frames_for_duration stays in integer arithmetic.  The detector's    *)
(* ring_buffer only feeds get_speech_probability, which no handler calls,  *)
(* and is left out of the detector record.  The lifespan shutdown, which    *)
(* calls cleanup_session for every remaining session, is not an action.    *)
(*                                                                         *)
(* Specifications: Spec (several calls and connections), SpecCall (a       *)
(* single call), SpecRegistry (the REST endpoints and their answers),      *)
(* SpecScenario (one scripted call under the default settings) and         *)
(* SpecDetector (a detector on its own).                                   *)
(***************************************************************************)
EXTENDS Integers, Sequences, FiniteSets, TLC

\* ------------------------------------------------------------ bounds
MaxSessions == 2          \* sessions start_call may create in Spec
MaxConns == 2             \* websocket connections in Spec
CallSessions == 1         \* sessions start_call may create in SpecCall
CallConns == 1            \* websocket connections in SpecCall
MaxRegistrySessions == 11 \* sessions start_call may create in SpecRegistry
MaxSpeechCount == 4       \* cap on speech_frames for unscripted frames
MaxSilenceCount == 3      \* cap on silence_frames for unscripted frames
MaxDetectorCount == 80    \* cap on both counters of the standalone detector
ShortSilenceMs == 20      \* VAD_SILENCE_THRESHOLD override (.env) used in Spec
SpeechScript == 5         \* scenario: speech frames fed first
SilenceScript == 80       \* scenario: silence frames fed afterwards
PairSessions == 2         \* calls running side by side in SpecPair
MaxTextLen == 2           \* longest transcription text

\* ------------------------------------------------- program constants
VAD_SILENCE_THRESHOLD == 1500
VAD_MIN_SPEECH_LENGTH == 500
SAMPLE_RATE == 16000
MAX_CONCURRENT_CALLS == 10
Debounce == 3
FramesPerSecond == 50     \* frame_size = int(sample_rate * 0.02)
NotFoundCloseCode == 4000

UnknownId == 0            \* a session id start_call never issued

\* CallSessionStatus
INITIATED == "initiated"
LISTENING == "listening"
PROCESSING == "processing"
SPEAKING == "speaking"
ENDED == "ended"
ERROR == "error"

VARIABLES
  settings,         \* the Settings instance (fixed once the process started)
  active_sessions,  \* keys of the active_sessions dict
  sessions,         \* the CallSession object created for each issued id
  vad,              \* the VoiceActivityDetector object created for each issued id
  next_id,          \* the next fresh id uuid4 hands out
  tts_engine,       \* _tts_engine is not None
  stt_engine,       \* _stt_engine is not None
  response,         \* the last HTTP response of a call-management endpoint
  ws,               \* per websocket connection: handler position and locals
  detector,         \* the detector owned by an AudioFrameProcessor
  script,           \* scenario: number of scripted frames fed so far
  teardowns,        \* per id: times the body of cleanup_session ran
  firedAt,          \* per id: script positions at which has_speech_ended() fired
  pendingFire,      \* per id: firings since the last vad.reset() (saturating at 2)
  speechRun,        \* per id: current run of speech-classified frames (saturating)
  longRun           \* per id: a run longer than Debounce has been fed

vars == <<settings, active_sessions, sessions, vad, next_id, tts_engine, stt_engine,
          response, ws, detector, script, teardowns, firedAt, pendingFire,
          speechRun, longRun>>

Conns == 1..MaxConns

\* ------------------------------------------------------------ frames
\* An inbound websocket payload: empty bytes, an undersized chunk, or a full
\* 20 ms frame that the WebRTC classifier takes for speech or for silence.
Frames == {"empty", "short", "speech", "silence"}

\* VoiceActivityDetector.is_speech: the classifier's verdict; webrtcvad raises
\* on a frame of the wrong length, which is caught and answered False.
is_speech(frame) == frame = "speech"

\* ------------------------------------------------------------ detector
VoiceActivityDetector(sample_rate, silence_threshold, min_speech_length) ==
  [sample_rate |-> sample_rate,
   silence_threshold |-> silence_threshold,
   min_speech_length |-> min_speech_length,
   frame_size |-> sample_rate \div FramesPerSecond,
   silence_frames |-> 0,
   speech_frames |-> 0,
   in_speech |-> FALSE,
   speech_started |-> FALSE]

get_frames_for_duration(v, duration_ms) ==
  (duration_ms * v.sample_rate) \div (1000 * v.frame_size)

\* process_frame with the silence branch forgetting to zero speech_frames
process_frame_keeps_speech(v, frame) ==
  IF is_speech(frame)
  THEN LET n == v.speech_frames + 1
           start == ~v.in_speech /\ n > Debounce
       IN [v EXCEPT !.silence_frames = 0,
                    !.speech_frames = n,
                    !.in_speech = IF start THEN TRUE ELSE @,
                    !.speech_started = IF start THEN TRUE ELSE @]
  ELSE [v EXCEPT !.silence_frames = @ + 1]

\* process_frame with the debounce test off by one (>= instead of >)
process_frame_early_start(v, frame) ==
  IF is_speech(frame)
  THEN LET n == v.speech_frames + 1
           start == ~v.in_speech /\ n >= Debounce
       IN [v EXCEPT !.silence_frames = 0,
                    !.speech_frames = n,
                    !.in_speech = IF start THEN TRUE ELSE @,
                    !.speech_started = IF start THEN TRUE ELSE @]
  ELSE [v EXCEPT !.silence_frames = @ + 1,
                 !.speech_frames = 0]

\* process_frame with a silence frame dropping in_speech again
process_frame_unlatched(v, frame) ==
  IF is_speech(frame)
  THEN LET n == v.speech_frames + 1
           start == ~v.in_speech /\ n > Debounce
       IN [v EXCEPT !.silence_frames = 0,
                    !.speech_frames = n,
                    !.in_speech = IF start THEN TRUE ELSE @,
                    !.speech_started = IF start THEN TRUE ELSE @]
  ELSE [v EXCEPT !.silence_frames = @ + 1,
                 !.speech_frames = 0,
                 !.in_speech = FALSE]

\* process_frame confirming speech without latching speech_started
process_frame_no_started(v, frame) ==
  IF is_speech(frame)
  THEN LET n == v.speech_frames + 1
           start == ~v.in_speech /\ n > Debounce
       IN [v EXCEPT !.silence_frames = 0,
                    !.speech_frames = n,
                    !.in_speech = IF start THEN TRUE ELSE @]
  ELSE [v EXCEPT !.silence_frames = @ + 1,
                 !.speech_frames = 0]

process_frame(v, frame) ==
  IF is_speech(frame)
  THEN LET n == v.speech_frames + 1
           start == ~v.in_speech /\ n > Debounce
       IN [v EXCEPT !.silence_frames = 0,
                    !.speech_frames = n,
                    !.in_speech = IF start THEN TRUE ELSE @,
                    !.speech_started = IF start THEN TRUE ELSE @]
  ELSE [v EXCEPT !.silence_frames = @ + 1,
                 !.speech_frames = 0]

\* has_speech_ended with the silence test off by one (>= instead of >)
has_speech_ended_at_threshold(v) ==
  /\ v.in_speech
  /\ v.silence_frames >= get_frames_for_duration(v, v.silence_threshold)
  /\ \/ v.speech_frames > get_frames_for_duration(v, v.min_speech_length)
     \/ v.speech_started

has_speech_ended(v) ==
  /\ v.in_speech
  /\ v.silence_frames > get_frames_for_duration(v, v.silence_threshold)
  /\ \/ v.speech_frames > get_frames_for_duration(v, v.min_speech_length)
     \/ v.speech_started

reset(v) ==
  [v EXCEPT !.silence_frames = 0,
            !.speech_frames = 0,
            !.in_speech = FALSE,
            !.speech_started = FALSE]

\* ------------------------------------------------------------ text
\* Transcription texts: strings over a blank and a letter.
Chars == {" ", "a"}
Texts == UNION {[1..n -> Chars] : n \in 0..MaxTextLen}

RECURSIVE lstrip(_)
lstrip(t) == IF t # <<>> /\ Head(t) = " " THEN lstrip(Tail(t)) ELSE t

RECURSIVE rstrip(_)
rstrip(t) ==
  IF t # <<>> /\ t[Len(t)] = " " THEN rstrip(SubSeq(t, 1, Len(t) - 1)) ELSE t

\* str.strip()
strip(t) == rstrip(lstrip(t))

\* ------------------------------------------------------------ registry
CallSession(session_id) ==
  [sessionId |-> session_id,
   status |-> INITIATED,
   endTime |-> FALSE,
   messageCount |-> 0,
   conversationHistory |-> <<>>]

Registry == [active_sessions |-> active_sessions,
             sessions |-> sessions,
             teardowns |-> teardowns]

\* cleanup_session guarded by the existence of the session object instead of
\* its presence in active_sessions
cleanup_session_any_known(reg, session_id) ==
  IF session_id \in DOMAIN reg.sessions
  THEN [active_sessions |-> reg.active_sessions \ {session_id},
        sessions |-> [reg.sessions EXCEPT ![session_id].endTime = TRUE,
                                          ![session_id].status = ENDED],
        teardowns |-> [reg.teardowns EXCEPT ![session_id] = @ + 1]]
  ELSE reg

\* cleanup_session without its last line, del active_sessions[session_id]
cleanup_session_keeps_entry(reg, session_id) ==
  IF session_id \in reg.active_sessions
  THEN [active_sessions |-> reg.active_sessions,
        sessions |-> [reg.sessions EXCEPT ![session_id].endTime = TRUE,
                                          ![session_id].status = ENDED],
        teardowns |-> [reg.teardowns EXCEPT ![session_id] = @ + 1]]
  ELSE reg

\* cleanup_session(session_id), as a function of the registry
cleanup_session(reg, session_id) ==
  IF session_id \in reg.active_sessions
  THEN [active_sessions |-> reg.active_sessions \ {session_id},
        sessions |-> [reg.sessions EXCEPT ![session_id].endTime = TRUE,
                                          ![session_id].status = ENDED],
        teardowns |-> [reg.teardowns EXCEPT ![session_id] = @ + 1]]
  ELSE reg

\* start_call, lines 109-124: the new entry of active_sessions
create_session(reg, session_id) ==
  [active_sessions |-> reg.active_sessions \cup {session_id},
   sessions |-> [i \in DOMAIN reg.sessions \cup {session_id} |->
                   IF i = session_id THEN CallSession(session_id)
                                     ELSE reg.sessions[i]],
   teardowns |-> [i \in DOMAIN reg.teardowns \cup {session_id} |->
                    IF i = session_id THEN 0 ELSE reg.teardowns[i]]]

SetRegistry(reg) ==
  /\ active_sessions' = reg.active_sessions
  /\ sessions' = reg.sessions
  /\ teardowns' = reg.teardowns

Issued == 1..(next_id - 1)

\* get_tts_engine / get_stt_engine: the singleton is returned when it exists;
\* otherwise it is constructed, which can raise (the engine then stays unset).
get_engine(loaded) ==
  IF loaded THEN {[ok |-> TRUE, loaded |-> TRUE]}
            ELSE {[ok |-> TRUE, loaded |-> TRUE], [ok |-> FALSE, loaded |-> FALSE]}

\* ------------------------------------------------------------ initial states
Settings(silence_ms) ==
  [VAD_SILENCE_THRESHOLD |-> silence_ms,
   VAD_MIN_SPEECH_LENGTH |-> VAD_MIN_SPEECH_LENGTH,
   SAMPLE_RATE |-> SAMPLE_RATE,
   MAX_CONCURRENT_CALLS |-> MAX_CONCURRENT_CALLS]

NewDetector(cfg) ==
  VoiceActivityDetector(cfg.SAMPLE_RATE, cfg.VAD_SILENCE_THRESHOLD,
                        cfg.VAD_MIN_SPEECH_LENGTH)

NoResponse == [op |-> "none", session_id |-> UnknownId, status_code |-> 0]

IdleConn == [pc |-> "idle", session_id |-> UnknownId, close_code |-> 0,
             exit |-> "none", in_turn |-> FALSE, turn |-> "none",
             audio_data |-> <<>>]

\* After lifespan startup: no session, each engine pre-loaded or not (a failed
\* pre-load is only logged).
InitWith(cfg) ==
  /\ settings = cfg
  /\ active_sessions = {}
  /\ sessions = <<>>
  /\ vad = <<>>
  /\ next_id = 1
  /\ tts_engine \in BOOLEAN
  /\ stt_engine \in BOOLEAN
  /\ response = NoResponse
  /\ ws = [c \in Conns |-> IdleConn]
  /\ detector = NewDetector(cfg)
  /\ script = 0
  /\ teardowns = <<>>
  /\ firedAt = <<>>
  /\ pendingFire = <<>>
  /\ speechRun = <<>>
  /\ longRun = <<>>

Init == InitWith(Settings(ShortSilenceMs))

InitDefault == InitWith(Settings(VAD_SILENCE_THRESHOLD))

\* ------------------------------------------------------------ REST endpoints
Extend(f, k, x) == [i \in DOMAIN f \cup {k} |-> IF i = k THEN x ELSE f[i]]

\* POST /api/call/start.  No await inside: one step.  The session is inserted
\* before the TTS engine is obtained; an exception then answers 500.
\* `answered`: whether the specification keeps the answer in `response` (the
\* answer is what the client gets, no state of the server).
start_call(limit, answered) ==
  /\ next_id <= limit
  /\ LET session_id == next_id IN
     \E tts \in get_engine(tts_engine) :
       /\ SetRegistry(create_session(Registry, session_id))
       /\ vad' = Extend(vad, session_id, NewDetector(settings))
       /\ next_id' = next_id + 1
       /\ tts_engine' = tts.loaded
       /\ response' = IF ~answered THEN response
                       ELSE IF tts.ok
                       THEN [op |-> "start", session_id |-> session_id,
                             status_code |-> 200]
                       ELSE [op |-> "start", session_id |-> UnknownId,
                             status_code |-> 500]
       /\ firedAt' = Extend(firedAt, session_id, {})
       /\ pendingFire' = Extend(pendingFire, session_id, 0)
       /\ speechRun' = Extend(speechRun, session_id, 0)
       /\ longRun' = Extend(longRun, session_id, FALSE)
  /\ UNCHANGED <<settings, stt_engine, ws, detector, script>>

\* The except clause of end_call: every Exception raised in the try block, the
\* HTTPException(404) included, is answered as HTTPException(500).
end_call_except(status_code) == 500

\* POST /api/call/end
end_call(session_id, answered) ==
  /\ IF session_id \notin active_sessions
     THEN /\ response' = IF ~answered THEN response
                          ELSE [op |-> "end", session_id |-> UnknownId,
                                status_code |-> end_call_except(404)]
          /\ UNCHANGED <<active_sessions, sessions, teardowns>>
     ELSE /\ SetRegistry(cleanup_session(Registry, session_id))
          /\ response' = IF ~answered THEN response
                          ELSE [op |-> "end", session_id |-> session_id,
                                status_code |-> 200]
  /\ UNCHANGED <<settings, vad, next_id, tts_engine, stt_engine, ws, detector,
                 script, firedAt, pendingFire, speechRun, longRun>>

SessionIds == Issued \cup {UnknownId}

\* ------------------------------------------------------------ websocket handler
\* Positions of websocket_endpoint, one per await it can be suspended in:
\*   closing (199), accepting (202), receiving (214), sending (244),
\*   send_error (255); idle before the connection, done after the handler left.
\* `audio_data` is what the turn recorded in `turn` handed to stt.transcribe:
\* the frames, named by their script positions.
SetWs(c, pc, exit, in_turn, turn) ==
  ws' = [ws EXCEPT ![c].pc = pc, ![c].exit = exit,
                   ![c].in_turn = in_turn, ![c].turn = turn,
                   ![c].audio_data = IF turn = "none" THEN <<>> ELSE @]

\* stt.transcribe(data) at line 227: `data` is the frame just received.
Transcribed(data) == <<data>>

\* The handler has run a turn on `audio_data` and is at position pc.
SetWsTurn(c, pc, turn, audio_data) ==
  ws' = [ws EXCEPT ![c].pc = pc, ![c].exit = "none", ![c].in_turn = FALSE,
                   ![c].turn = turn, ![c].audio_data = audio_data]

\* The finally block: cleanup_session(session_id), then the handler is over.
Finally(c, exit, in_turn) ==
  /\ SetRegistry(cleanup_session(Registry, ws[c].session_id))
  /\ SetWs(c, "done", exit, in_turn, "none")

UnchangedObservers == UNCHANGED <<firedAt, pendingFire, speechRun, longRun>>

\* ws_connect without the membership test of lines 198-200: every connection
\* is accepted.
ws_connect_accepts_all(c, session_id) ==
  /\ ws[c].pc = "idle"
  /\ ws' = [ws EXCEPT ![c].session_id = session_id, ![c].pc = "accepting"]
  /\ UNCHANGED <<settings, active_sessions, sessions, vad, next_id, tts_engine,
                 stt_engine, response, detector, script, teardowns>>
  /\ UnchangedObservers

\* A client opens /ws/call/{session_id}: the handler runs to its first await,
\* websocket.close(4000) for an unknown id, websocket.accept() otherwise.
ws_connect(c, session_id) ==
  /\ ws[c].pc = "idle"
  /\ ws' = [ws EXCEPT ![c].session_id = session_id,
                      ![c].pc = IF session_id \notin active_sessions
                                THEN "closing" ELSE "accepting",
                      ![c].close_code = IF session_id \notin active_sessions
                                        THEN NotFoundCloseCode ELSE @]
  /\ UNCHANGED <<settings, active_sessions, sessions, vad, next_id, tts_engine,
                 stt_engine, response, detector, script, teardowns>>
  /\ UnchangedObservers

\* websocket.close returned: return, through the finally block.
ws_closed(c) ==
  /\ ws[c].pc = "closing"
  /\ Finally(c, "not_found", FALSE)
  /\ UNCHANGED <<settings, vad, next_id, tts_engine, stt_engine, response,
                 detector, script>>
  /\ UnchangedObservers

\* websocket.accept returned: look the session up and obtain both engines.
\* The lookup raises KeyError when the session was removed meanwhile, and an
\* engine constructor can raise; neither is caught, the finally block runs.
ws_accepted(c) ==
  /\ ws[c].pc = "accepting"
  /\ IF ws[c].session_id \notin active_sessions
     THEN /\ Finally(c, "setup_error", FALSE)
          /\ UNCHANGED <<stt_engine, tts_engine>>
     ELSE \E stt \in get_engine(stt_engine) :
            /\ stt_engine' = stt.loaded
            /\ IF ~stt.ok
               THEN /\ Finally(c, "setup_error", FALSE)
                    /\ UNCHANGED tts_engine
               ELSE \E tts \in get_engine(tts_engine) :
                      /\ tts_engine' = tts.loaded
                      /\ IF ~tts.ok
                         THEN Finally(c, "setup_error", FALSE)
                         ELSE /\ SetWs(c, "receiving", "none", FALSE, "none")
                              /\ UNCHANGED <<active_sessions, sessions, teardowns>>
  /\ UNCHANGED <<settings, vad, next_id, response, detector, script>>
  /\ UnchangedObservers

\* websocket.accept raised (the client is gone): not caught, finally runs.
ws_accept_failed(c) ==
  /\ ws[c].pc = "accepting"
  /\ Finally(c, "setup_error", FALSE)
  /\ UNCHANGED <<settings, vad, next_id, tts_engine, stt_engine, response,
                 detector, script>>
  /\ UnchangedObservers

Saturate(n, cap) == IF n > cap THEN cap ELSE n

\* receive_bytes returned `frame`: one iteration of the loop up to its next
\* await.  `pos` is the script position of the frame (0 when unscripted).
\* Lines 214-248: empty data is skipped; the detector processes the frame;
\* when speech has ended, the frame is transcribed; an empty text goes back to
\* receive_bytes, any other text is answered and the handler awaits send_bytes.
ReceiveFrame(c, frame, pos) ==
  LET sid == ws[c].session_id
      v == process_frame(vad[sid], frame)
      run == IF is_speech(frame) THEN Saturate(speechRun[sid] + 1, Debounce + 1)
                                 ELSE 0
  IN
  /\ ws[c].pc = "receiving"
  /\ IF frame = "empty"
     THEN /\ SetWs(c, "receiving", "none", FALSE, "none")
          /\ UNCHANGED vad
          /\ UnchangedObservers
     ELSE /\ vad' = [vad EXCEPT ![sid] = v]
          /\ speechRun' = [speechRun EXCEPT ![sid] = run]
          /\ longRun' = [longRun EXCEPT ![sid] = @ \/ run > Debounce]
          /\ IF has_speech_ended(v)
             THEN /\ firedAt' = [firedAt EXCEPT ![sid] = @ \cup {pos}]
                  /\ pendingFire' = [pendingFire EXCEPT ![sid] = Saturate(@ + 1, 2)]
                  /\ \E text \in Texts :
                       IF strip(text) = <<>>
                       THEN SetWsTurn(c, "receiving", "empty", Transcribed(pos))
                       ELSE SetWsTurn(c, "sending", "reply", Transcribed(pos))
             ELSE /\ SetWs(c, "receiving", "none", FALSE, "none")
                  /\ UNCHANGED <<firedAt, pendingFire>>
  /\ script' = pos
  /\ UNCHANGED <<settings, active_sessions, sessions, next_id, tts_engine,
                 stt_engine, response, detector, teardowns>>

\* A frame from a client that sends what it likes.
ws_receive(c) ==
  \E frame \in Frames :
    /\ ws[c].pc = "receiving"
    /\ is_speech(frame) => vad[ws[c].session_id].speech_frames < MaxSpeechCount
    /\ frame \in {"short", "silence"}
         => vad[ws[c].session_id].silence_frames < MaxSilenceCount
    /\ ReceiveFrame(c, frame, script)

\* receive_bytes raised WebSocketDisconnect: break, then the finally block.
ws_receive_disconnect(c) ==
  /\ ws[c].pc = "receiving"
  /\ Finally(c, "disconnect", FALSE)
  /\ UNCHANGED <<settings, vad, next_id, tts_engine, stt_engine, response,
                 detector, script>>
  /\ UnchangedObservers

\* receive_bytes raised another exception (a text message, say): the handler
\* awaits send_json with the error payload.
ws_receive_error(c) ==
  /\ ws[c].pc = "receiving"
  /\ SetWs(c, "send_error", "none", FALSE, "none")
  /\ UNCHANGED <<settings, active_sessions, sessions, vad, next_id, tts_engine,
                 stt_engine, response, detector, script, teardowns>>
  /\ UnchangedObservers

\* ws_sent resetting one detector shared by all sessions
ws_sent_resets_all(c) ==
  /\ ws[c].pc = "sending"
  /\ vad' = [i \in DOMAIN vad |-> reset(vad[i])]
  /\ pendingFire' = [pendingFire EXCEPT ![ws[c].session_id] = 0]
  /\ SetWs(c, "receiving", "none", FALSE, ws[c].turn)
  /\ UNCHANGED <<settings, active_sessions, sessions, next_id, tts_engine,
                 stt_engine, response, detector, script, teardowns, firedAt,
                 speechRun, longRun>>

\* send_bytes returned: vad.reset(), back to receive_bytes.
ws_sent(c) ==
  /\ ws[c].pc = "sending"
  /\ vad' = [vad EXCEPT ![ws[c].session_id] = reset(@)]
  /\ pendingFire' = [pendingFire EXCEPT ![ws[c].session_id] = 0]
  /\ SetWs(c, "receiving", "none", FALSE, ws[c].turn)
  /\ UNCHANGED <<settings, active_sessions, sessions, next_id, tts_engine,
                 stt_engine, response, detector, script, teardowns, firedAt,
                 speechRun, longRun>>

\* send_bytes raised WebSocketDisconnect: the transport went away mid-turn.
ws_send_disconnect(c) ==
  /\ ws[c].pc = "sending"
  /\ Finally(c, "disconnect", TRUE)
  /\ UNCHANGED <<settings, vad, next_id, tts_engine, stt_engine, response,
                 detector, script>>
  /\ UnchangedObservers

\* send_bytes raised another exception: the handler awaits send_json.
ws_send_error(c) ==
  /\ ws[c].pc = "sending"
  /\ SetWs(c, "send_error", "none", TRUE, "none")
  /\ UNCHANGED <<settings, active_sessions, sessions, vad, next_id, tts_engine,
                 stt_engine, response, detector, script, teardowns>>
  /\ UnchangedObservers

\* ws_error_sent with the teardown after the try statement instead of in a
\* finally block: an exception of send_json leaves the handler without it.
ws_error_sent_no_finally(c) ==
  /\ ws[c].pc = "send_error"
  /\ \/ Finally(c, "error", ws[c].in_turn)
     \/ /\ SetWs(c, "done", "error_unsent", ws[c].in_turn, "none")
        /\ UNCHANGED <<active_sessions, sessions, teardowns>>
  /\ UNCHANGED <<settings, vad, next_id, tts_engine, stt_engine, response,
                 detector, script>>
  /\ UnchangedObservers

\* send_json returned, or raised (out of the except clause): either way the
\* finally block runs.
ws_error_sent(c) ==
  /\ ws[c].pc = "send_error"
  /\ \E delivered \in BOOLEAN :
       Finally(c, IF delivered THEN "error" ELSE "error_unsent", ws[c].in_turn)
  /\ UNCHANGED <<settings, vad, next_id, tts_engine, stt_engine, response,
                 detector, script>>
  /\ UnchangedObservers

\* ------------------------------------------------------------ specifications
Handler(c) ==
  \/ \E session_id \in SessionIds : ws_connect(c, session_id)
  \/ ws_closed(c)
  \/ ws_accepted(c)
  \/ ws_accept_failed(c)
  \/ ws_receive(c)
  \/ ws_receive_disconnect(c)
  \/ ws_receive_error(c)
  \/ ws_sent(c)
  \/ ws_send_disconnect(c)
  \/ ws_send_error(c)
  \/ ws_error_sent(c)

\* The server with clients that start and end calls and open websockets.
System(limit, conns) ==
  \/ start_call(limit, FALSE)
  \/ \E session_id \in SessionIds : end_call(session_id, FALSE)
  \/ \E c \in conns : Handler(c)

\* Several calls, several connections (also on one session id).
Next == System(MaxSessions, 1..MaxConns)

Spec == Init /\ [][Next]_vars

\* A single call: the same server with fewer sessions and connections.
NextCall == System(CallSessions, 1..CallConns)

SpecCall == Init /\ [][NextCall]_vars

\* The steps the server takes by itself: the event loop resumes a handler
\* whose close, accept, send_bytes or send_json has completed.  Everything else
\* (start_call, end_call, a connection, a frame, a disconnect) needs the client.
ServerStep ==
  \E c \in 1..CallConns :
    ws_closed(c) \/ ws_accepted(c) \/ ws_sent(c) \/ ws_error_sent(c)

\* A single call whose client may go silent at any point: only the server's
\* own steps are bound to happen.
SpecIdleClient == Init /\ [][NextCall]_vars /\ WF_vars(ServerStep)

\* ------------------------------------------------------------ the event loop
\* The same server with the synchronous part of a turn made visible.  All
\* handlers are coroutines of one event loop; stt.transcribe (227) and
\* tts.synthesize (241) are ordinary calls, not awaits, so while a handler is
\* inside them (pc "transcribing") the loop runs nothing else.
Busy == \E c \in Conns : ws[c].pc = "transcribing"

TurnFires(c, frame) ==
  /\ frame # "empty"
  /\ has_speech_ended(process_frame(vad[ws[c].session_id], frame))

FrameAllowed(c, frame) ==
  /\ is_speech(frame) => vad[ws[c].session_id].speech_frames < MaxSpeechCount
  /\ frame \in {"short", "silence"}
       => vad[ws[c].session_id].silence_frames < MaxSilenceCount

\* receive_bytes returned a frame that ends the utterance: lines 214-227, the
\* handler is now inside stt.transcribe.
ws_turn_called(c) ==
  \E frame \in Frames :
    LET sid == ws[c].session_id
        run == IF is_speech(frame)
               THEN Saturate(speechRun[sid] + 1, Debounce + 1) ELSE 0
    IN
    /\ ws[c].pc = "receiving"
    /\ FrameAllowed(c, frame)
    /\ TurnFires(c, frame)
    /\ vad' = [vad EXCEPT ![sid] = process_frame(@, frame)]
    /\ speechRun' = [speechRun EXCEPT ![sid] = run]
    /\ longRun' = [longRun EXCEPT ![sid] = @ \/ run > Debounce]
    /\ firedAt' = [firedAt EXCEPT ![sid] = @ \cup {script}]
    /\ pendingFire' = [pendingFire EXCEPT ![sid] = Saturate(@ + 1, 2)]
    /\ SetWsTurn(c, "transcribing", "none", Transcribed(script))
    /\ UNCHANGED <<settings, active_sessions, sessions, next_id, tts_engine,
                   stt_engine, response, detector, script, teardowns>>

\* The synchronous calls returned: lines 228-244, up to the next await.
ws_turn_returned(c) ==
  /\ ws[c].pc = "transcribing"
  /\ \E text \in Texts :
       IF strip(text) = <<>>
       THEN SetWsTurn(c, "receiving", "empty", ws[c].audio_data)
       ELSE SetWsTurn(c, "sending", "reply", ws[c].audio_data)
  /\ UNCHANGED <<settings, active_sessions, sessions, vad, next_id, tts_engine,
                 stt_engine, response, detector, script, teardowns>>
  /\ UnchangedObservers

\* receive_bytes returned a frame that does not end the utterance.
ws_frame_taken(c) ==
  \E frame \in Frames :
    /\ ws[c].pc = "receiving"
    /\ FrameAllowed(c, frame)
    /\ ~TurnFires(c, frame)
    /\ ReceiveFrame(c, frame, script)

\* The frame intake of a handler: the loop is free and hands it a frame.
FrameIntake(c) == ~Busy /\ (ws_frame_taken(c) \/ ws_turn_called(c))

NextLoop ==
  \/ ~Busy /\ start_call(MaxSessions, FALSE)
  \/ ~Busy /\ \E session_id \in SessionIds : end_call(session_id, FALSE)
  \/ \E c \in Conns :
       /\ ~Busy
       /\ \/ \E session_id \in SessionIds : ws_connect(c, session_id)
          \/ ws_closed(c)
          \/ ws_accepted(c)
          \/ ws_accept_failed(c)
          \/ ws_receive_disconnect(c)
          \/ ws_receive_error(c)
          \/ ws_sent(c)
          \/ ws_send_disconnect(c)
          \/ ws_send_error(c)
          \/ ws_error_sent(c)
  \/ \E c \in Conns : FrameIntake(c)
  \/ \E c \in Conns : ws_turn_returned(c)

SpecLoop == Init /\ [][NextLoop]_vars

\* Several calls side by side, each client with the websocket of its own
\* call: connection c is opened on session id c.
NextPair ==
  \/ start_call(PairSessions, FALSE)
  \/ \E c \in 1..PairSessions :
       \/ ws_connect(c, c)
       \/ ws_closed(c)
       \/ ws_accepted(c)
       \/ ws_receive(c)
       \/ ws_sent(c)

SpecPair == Init /\ [][NextPair]_vars

\* The call-management endpoints alone, with their answers kept, up to more
\* sessions than MAX_CONCURRENT_CALLS.
NextRegistry ==
  \/ start_call(MaxRegistrySessions, TRUE)
  \/ \E session_id \in SessionIds : end_call(session_id, TRUE)

SpecRegistry == InitDefault /\ [][NextRegistry]_vars

\* One client that feeds the scenario's frames to one fresh session under the
\* default settings: SpeechScript speech frames, then SilenceScript silence frames.
ScriptFrame(pos) == IF pos <= SpeechScript THEN "speech" ELSE "silence"

ws_receive_scripted(c) ==
  /\ script < SpeechScript + SilenceScript
  /\ ReceiveFrame(c, ScriptFrame(script + 1), script + 1)

NextScenario ==
  \/ start_call(1, FALSE)
  \/ ws_connect(1, 1)
  \/ ws_accepted(1)
  \/ ws_receive_scripted(1)
  \/ ws_sent(1)

SpecScenario == InitDefault /\ [][NextScenario]_vars

\* The same call with a client that, after the speech frames, sends only
\* frames shorter than the chunk size.
ShortFrameScript(pos) == IF pos <= SpeechScript THEN "speech" ELSE "short"

ws_receive_short_scripted(c) ==
  /\ script < SpeechScript + SilenceScript
  /\ ReceiveFrame(c, ShortFrameScript(script + 1), script + 1)

NextShortFrames ==
  \/ start_call(1, FALSE)
  \/ ws_connect(1, 1)
  \/ ws_accepted(1)
  \/ ws_receive_short_scripted(1)
  \/ ws_sent(1)

SpecShortFrames == InitDefault /\ [][NextShortFrames]_vars

\* A detector on its own (the one an AudioFrameProcessor owns), driven by any
\* sequence of process_frame and reset calls.
detector_process_frame(frame) ==
  /\ detector.speech_frames < MaxDetectorCount
  /\ detector.silence_frames < MaxDetectorCount
  /\ detector' = process_frame(detector, frame)
  /\ UNCHANGED <<settings, active_sessions, sessions, vad, next_id, tts_engine,
                 stt_engine, response, ws, script, teardowns, firedAt,
                 pendingFire, speechRun, longRun>>

detector_reset ==
  /\ detector' = reset(detector)
  /\ UNCHANGED <<settings, active_sessions, sessions, vad, next_id, tts_engine,
                 stt_engine, response, ws, script, teardowns, firedAt,
                 pendingFire, speechRun, longRun>>

NextDetector ==
  \/ \E frame \in Frames \ {"empty"} : detector_process_frame(frame)
  \/ detector_reset

SpecDetector == InitDefault /\ [][NextDetector]_vars

\* Two detectors constructed with the same sample rate and silence threshold
\* and any two minimum speech lengths (ms), fed the same frames and reset
\* together.
MinSpeechLengths == {0, VAD_MIN_SPEECH_LENGTH, 4 * VAD_MIN_SPEECH_LENGTH}

InitTwins ==
  /\ settings = Settings(VAD_SILENCE_THRESHOLD)
  /\ active_sessions = {}
  /\ sessions = <<>>
  /\ \E a, b \in MinSpeechLengths :
       vad = <<VoiceActivityDetector(SAMPLE_RATE, VAD_SILENCE_THRESHOLD, a),
               VoiceActivityDetector(SAMPLE_RATE, VAD_SILENCE_THRESHOLD, b)>>
  /\ next_id = 1
  /\ tts_engine \in BOOLEAN
  /\ stt_engine \in BOOLEAN
  /\ response = NoResponse
  /\ ws = [c \in Conns |-> IdleConn]
  /\ detector = NewDetector(settings)
  /\ script = 0
  /\ teardowns = <<>>
  /\ firedAt = <<>>
  /\ pendingFire = <<>>
  /\ speechRun = <<>>
  /\ longRun = <<>>

twins_process_frame(frame) ==
  /\ \A i \in DOMAIN vad : /\ vad[i].speech_frames < MaxDetectorCount
                           /\ vad[i].silence_frames < MaxDetectorCount
  /\ vad' = [i \in DOMAIN vad |-> process_frame(vad[i], frame)]
  /\ UNCHANGED <<settings, active_sessions, sessions, next_id, tts_engine,
                 stt_engine, response, ws, detector, script, teardowns,
                 firedAt, pendingFire, speechRun, longRun>>

twins_reset ==
  /\ vad' = [i \in DOMAIN vad |-> reset(vad[i])]
  /\ UNCHANGED <<settings, active_sessions, sessions, next_id, tts_engine,
                 stt_engine, response, ws, detector, script, teardowns,
                 firedAt, pendingFire, speechRun, longRun>>

NextTwins ==
  \/ \E frame \in Frames \ {"empty"} : twins_process_frame(frame)
  \/ twins_reset

SpecTwins == InitTwins /\ [][NextTwins]_vars

\* ------------------------------------------------------------ properties
SilenceFrames(v) == get_frames_for_duration(v, v.silence_threshold)

\* The handlers of session sid that are inside a turn: has_speech_ended() has
\* fired for them and they have not reached vad.reset() (suspended in send_bytes).
InTurn(sid) == {c \in Conns : ws[c].session_id = sid /\ ws[c].pc = "sending"}

\* C1: for every session, at most one turn is in flight at any instant, also
\* when several websocket connections deliver frames for the same session id.
C1_AtMostOneTurnInFlight ==
  \A sid \in Issued : Cardinality(InTurn(sid)) <= 1

\* C2: between two firings of has_speech_ended() in the websocket loop of a
\* session there is a vad.reset(): never two firings since the last reset.
C2_ResetBetweenFirings ==
  \A sid \in Issued : pendingFire[sid] <= 1

\* C3: speech_frames and silence_frames of a detector are never both nonzero,
\* and every process_frame call zeroes one of them and adds one to the other
\* (a step that changes the detector otherwise is a reset).
C3_CountersExclusive ==
  /\ [](detector.speech_frames = 0 \/ detector.silence_frames = 0)
  /\ [][detector' # reset(detector) =>
          \/ /\ detector'.speech_frames = detector.speech_frames + 1
             /\ detector'.silence_frames = 0
          \/ /\ detector'.silence_frames = detector.silence_frames + 1
             /\ detector'.speech_frames = 0]_detector

\* C3 witness: a detector that has confirmed speech and then counted silence.
C3_Witness ==
  /\ detector.in_speech
  /\ detector.speech_frames = 0
  /\ detector.silence_frames = 2

\* C4: with the default 75-frame silence threshold, 5 speech frames followed by
\* 80 silence frames fire exactly one turn, on the 76th silence frame, whatever
\* the transcriber returns.
C4_ExactlyOneTurnOn76thSilence ==
  (script = SpeechScript + SilenceScript /\ ws[1].pc = "receiving")
    => firedAt[1] = {SpeechScript + 76}

\* C5: while no run of more than 3 consecutive speech-classified frames has
\* been fed to a session, in_speech is false, has_speech_ended() is false and
\* no turn has run, however many silence frames were fed.
C5_NoTurnWithoutLongRun ==
  \A sid \in Issued :
    ~longRun[sid] =>
      /\ ~vad[sid].in_speech
      /\ ~has_speech_ended(vad[sid])
      /\ firedAt[sid] = {}
      /\ \A c \in Conns :
           ws[c].session_id = sid => ws[c].pc # "sending" /\ ws[c].turn = "none"

\* C5 witness: silence beyond the threshold on a session that got speech
\* frames only in runs of at most 3 (the last one being fed right now).
C5_Witness ==
  \E sid \in Issued :
    /\ ~longRun[sid]
    /\ vad[sid].silence_frames > SilenceFrames(vad[sid])
    /\ \E c \in Conns : ws[c].session_id = sid /\ ws[c].pc = "receiving"

\* C6: after a turn whose transcription is empty or blank, nothing is sent,
\* the history is untouched, the session status is Listening and its detector
\* is in the state reset() leaves.
C6_EmptyTranscriptionBackToListening ==
  \A c \in Conns :
    ws[c].turn = "empty" =>
      /\ ws[c].pc = "receiving"
      /\ sessions[ws[c].session_id].conversationHistory = <<>>
      /\ sessions[ws[c].session_id].status = LISTENING
      /\ vad[ws[c].session_id] = reset(vad[ws[c].session_id])

\* C7: a handler that left because the transport failed inside a turn leaves
\* its session out of active_sessions with endTime set and status Ended, and
\* the teardown of a session never runs twice, whoever else tears it down.
C7_DisconnectMidTurnTearsDownOnce ==
  /\ \A sid \in Issued : teardowns[sid] <= 1
  /\ \A c \in Conns :
       (ws[c].pc = "done" /\ ws[c].in_turn) =>
         /\ ws[c].session_id \notin active_sessions
         /\ teardowns[ws[c].session_id] = 1
         /\ sessions[ws[c].session_id].endTime
         /\ sessions[ws[c].session_id].status = ENDED

\* C7 witness: a handler gone by a disconnect raised in send_bytes.
C7_Witness ==
  \E c \in Conns :
    ws[c].pc = "done" /\ ws[c].in_turn /\ ws[c].exit = "disconnect"

\* C8: active_sessions never holds more than MAX_CONCURRENT_CALLS sessions, and
\* a start call is never answered with success beyond that.
C8_CapacityEnforced ==
  Cardinality(active_sessions) <= settings.MAX_CONCURRENT_CALLS

\* C9: end_call with an id that is not in active_sessions answers 404: an
\* end-call answer that is not a success is a 404.
C9_EndCallUnknownIs404 ==
  (response.op = "end" /\ response.status_code # 200)
    => response.status_code = 404

\* C10: cleanup_session on an absent id changes nothing, removing twice is
\* removing once, and a remove and the creation of another id commute: the
\* created id is added and the removed id is absent.
C10_RemoveIdempotent ==
  \A sid \in SessionIds :
    LET once == cleanup_session(Registry, sid)
        created == create_session(Registry, next_id)
    IN /\ sid \notin active_sessions => once = Registry
       /\ cleanup_session(once, sid) = once
       /\ once.active_sessions = active_sessions \ {sid}
       /\ cleanup_session(created, sid) = create_session(once, next_id)
       /\ cleanup_session(created, sid).active_sessions
            = (active_sessions \ {sid}) \cup {next_id}

\* C10 witness: a handler opened on a session that end_call had removed has
\* gone through its finally block: cleanup_session ran on an absent id.
C10_Witness ==
  \E c \in Conns :
    /\ ws[c].pc = "done"
    /\ ws[c].exit = "not_found"
    /\ ws[c].session_id \in Issued
    /\ teardowns[ws[c].session_id] = 1

\* C11: a websocket opened on an id that is not in active_sessions is closed
\* with code 4000 and never accepted: its handler is only ever suspended in
\* websocket.close, reads no frame, runs no turn, and none of its steps, the
\* finally block included, changes active_sessions or a session.
C11_UnknownIdClosedUntouched ==
  /\ [](\A c \in Conns :
          ws[c].close_code = NotFoundCloseCode =>
            /\ ws[c].pc \in {"closing", "done"}
            /\ ws[c].pc = "done" => ws[c].exit = "not_found"
            /\ ws[c].turn = "none" /\ ~ws[c].in_turn)
  /\ [][\A c \in Conns :
          /\ (ws[c].pc = "idle" /\ ws'[c].pc # "idle"
                /\ ws'[c].session_id \notin active_sessions)
               => /\ ws'[c].pc = "closing"
                  /\ ws'[c].close_code = NotFoundCloseCode
                  /\ UNCHANGED <<active_sessions, sessions, vad, teardowns>>
          /\ (ws[c].pc = "closing" /\ ws'[c] # ws[c])
               => /\ ws'[c].pc = "done"
                  /\ UNCHANGED <<active_sessions, sessions, vad, teardowns,
                                 firedAt, script>>]_vars

\* C11 witness: the handler of a connection to the id nobody was given has
\* returned after the close.
C11_Witness ==
  \E c \in Conns :
    /\ ws[c].pc = "done"
    /\ ws[c].session_id = UnknownId
    /\ ws[c].close_code = NotFoundCloseCode

\* C12: a frame shorter than the chunk size is dropped by the websocket loop:
\* when only such frames follow the speech frames, the detector stays as the
\* speech frames left it and has_speech_ended() never fires.
C12_ShortFrameDiscarded ==
  script > SpeechScript =>
    /\ vad[1].speech_frames = SpeechScript
    /\ vad[1].silence_frames = 0
    /\ vad[1].in_speech /\ vad[1].speech_started
    /\ ~has_speech_ended(vad[1])
    /\ firedAt[1] = {}

\* C13: a handler that was opened on an existing session and has left, for
\* whatever cause, left through cleanup_session: the step that ends it applies
\* cleanup_session to its id, and from then on the id is not in
\* active_sessions and the session has been torn down.
C13_HandlerExitCleansUp ==
  /\ [](\A c \in Conns :
          (ws[c].pc = "done" /\ ws[c].exit # "not_found") =>
            /\ ws[c].session_id \in Issued \ active_sessions
            /\ teardowns[ws[c].session_id] = 1
            /\ sessions[ws[c].session_id].status = ENDED)
  /\ [][\A c \in Conns :
          (ws[c].pc # "done" /\ ws'[c].pc = "done") =>
            /\ active_sessions' = active_sessions \ {ws[c].session_id}
            /\ [active_sessions |-> active_sessions', sessions |-> sessions',
                teardowns |-> teardowns']
                 = cleanup_session(Registry, ws[c].session_id)]_vars

\* C13 witness: a handler gone after send_json, with the error payload, raised.
C13_Witness ==
  \E c \in Conns :
    /\ ws[c].pc = "done"
    /\ ws[c].exit = "error_unsent"
    /\ ws[c].session_id \notin active_sessions

\* C14: a handler that left because of an exception, other than a disconnect,
\* raised inside a turn leaves its session with status Error and out of
\* active_sessions (the error payload having been handed to send_json).
C14_PipelineErrorEndsInError ==
  \A c \in Conns :
    (ws[c].pc = "done" /\ ws[c].in_turn
       /\ ws[c].exit \in {"error", "error_unsent"}) =>
      /\ ws[c].session_id \notin active_sessions
      /\ sessions[ws[c].session_id].status = ERROR

\* C15: once end_call has torn a session down (its id is out of
\* active_sessions), no handler of that session starts a turn: none goes from
\* receive_bytes to the send_bytes of a reply.
C15_EndedIsTerminal ==
  [][\A c \in Conns :
       (ws[c].pc = "receiving" /\ ws[c].session_id \notin active_sessions)
         => ws'[c].pc # "sending"]_vars

\* C16: every session that start_call put into active_sessions is eventually
\* removed from it, whatever the client does or fails to do afterwards.
C16_SessionEventuallyRemoved ==
  \A sid \in 1..CallSessions :
    (sid \in active_sessions) ~> (sid \notin active_sessions)

\* C17: while the handler of one session is inside its transcription or
\* synthesis call, the handler of another session that waits in receive_bytes
\* can still take its next frame.
C17_SessionsDoNotBlock ==
  \A a, b \in Conns :
    (/\ ws[a].pc = "transcribing"
     /\ ws[b].pc = "receiving"
     /\ ws[a].session_id # ws[b].session_id) => ENABLED FrameIntake(b)

\* C18: the audio handed to the transcriber is every frame of the utterance in
\* order: at the first firing of the scripted call, where no reset has happened
\* yet, all the frames received so far.
C18_WholeUtteranceTranscribed ==
  (ws[1].turn # "none" /\ firedAt[1] = {SpeechScript + 76}) =>
    ws[1].audio_data = [i \in 1..script |-> i]

\* C19: messageCount is the number of turns completed with a non-empty
\* transcription, and each of them appended a user entry and an assistant
\* entry to conversationHistory.  In the scripted call that number is 1 once a
\* reply went out (a firing followed by the reset of ws_sent; only silence is
\* left afterwards) and 0 before.
C19_MessageCountCountsTurns ==
  LET completed == IF firedAt[1] # {} /\ pendingFire[1] = 0 THEN 1 ELSE 0
      history == sessions[1].conversationHistory
  IN 1 \in Issued =>
       /\ sessions[1].messageCount = completed
       /\ Len(history) = 2 * completed
       /\ completed = 1 =>
            history[1].role = "user" /\ history[2].role = "assistant"

\* C20: in every reachable detector state has_speech_ended() is true exactly
\* when in_speech holds, silence_frames exceeds the silence threshold counted
\* in 20 ms frames, and speech_frames exceeds the minimum speech length in
\* frames or speech_started is set; so it is false while in_speech is false.
C20_SpeechEndedIff ==
  LET silence_limit == (detector.silence_threshold * FramesPerSecond) \div 1000
      min_speech == (detector.min_speech_length * FramesPerSecond) \div 1000
  IN /\ has_speech_ended(detector) <=>
          /\ detector.in_speech
          /\ detector.silence_frames > silence_limit
          /\ detector.speech_frames > min_speech \/ detector.speech_started
     /\ ~detector.in_speech => ~has_speech_ended(detector)

\* C20 witness: speech was confirmed and the 76th silence frame has just been
\* counted, one more than the 75 frames of the 1.5 s threshold.
C20_Witness ==
  /\ has_speech_ended(detector)
  /\ detector.silence_frames = 76
  /\ ~has_speech_ended([detector EXCEPT !.silence_frames = 75])

\* C21: in_speech and speech_started are set on the frame that brings the run
\* of consecutive speech frames to 4 and on no other step; below that both are
\* false while no speech was confirmed; once set, every step that is not a
\* reset keeps them, and reset() clears them.
C21_DebounceThenLatched ==
  /\ [](~detector.in_speech => detector.speech_frames <= 3)
  /\ [][/\ (~detector.in_speech /\ detector'.in_speech)
             => /\ detector.speech_frames = 3
                /\ detector'.speech_frames = 4
                /\ detector'.speech_started
        /\ (~detector.speech_started /\ detector'.speech_started)
             => (detector'.in_speech /\ detector'.speech_frames = 4)
        /\ (~detector.in_speech /\ detector'.speech_frames = 4)
             => detector'.in_speech
        /\ (detector.in_speech /\ detector' # reset(detector))
             => (detector'.in_speech /\ detector'.speech_started)
        /\ ~reset(detector).in_speech /\ ~reset(detector).speech_started
       ]_detector

\* C21 witness: speech was confirmed, silence and then new speech followed,
\* and both flags are still set.
C21_Witness ==
  /\ detector.in_speech /\ detector.speech_started
  /\ detector.speech_frames = 2
  /\ detector.silence_frames = 0

C23_VadPerSession ==
  [][/\ \A c \in Conns :
          (ws'[c] # ws[c] /\ ws[c].pc # "idle") =>
            \A b \in DOMAIN vad \ {ws[c].session_id} :
              b \in DOMAIN vad' /\ vad'[b] = vad[b]
     /\ next_id' # next_id =>
          /\ next_id \notin active_sessions \cup DOMAIN vad
          /\ active_sessions' = active_sessions \cup {next_id}
          /\ DOMAIN vad' = DOMAIN vad \cup {next_id}
          /\ vad'[next_id] = NewDetector(settings)
          /\ \A b \in DOMAIN vad : vad'[b] = vad[b]
    ]_vars

\* C23 witness: one session has had a turn and its detector has counted
\* speech again, while the detector of another session, whose handler waits
\* for frames, is still in its initial state.
C23_Witness ==
  \E a, b \in Issued :
    /\ a # b
    /\ firedAt[a] # {}
    /\ vad[a].speech_frames > 0
    /\ vad[b] = NewDetector(settings)
    /\ \E c \in Conns : ws[c].session_id = b /\ ws[c].pc = "receiving"

\* C24: right after start_call has answered, the id it was creating (the last
\* one issued) is in active_sessions exactly when the answer is a success; a
\* success carries that id and the session under it has status Initiated.
C24_StartCallAllOrNothing ==
  response.op = "start" =>
    LET session_id == next_id - 1 IN
    IF response.status_code = 200
    THEN /\ response.session_id = session_id
         /\ session_id \in active_sessions
         /\ sessions[session_id].status = INITIATED
    ELSE session_id \notin active_sessions
====
